---- MODULE Spec2Model ----
(***************************************************************************)
(* Model of the refinement workflow of nutri_care_ai: the LangGraph state  *)
(* graph built by WorkflowBuilder.create_workflow, its eight nodes, the    *)
(* two routing handlers and the AgentState record threaded through them.   *)
(*                                                                         *)
(* Scores are kept in tenths (8.0 is 80) so that the comparisons of the    *)
(* routers are integer comparisons.  Texts returned by the text-completion *)
(* oracle are drawn from small sets; the text of a score is a sequence of  *)
(* characters that float() has to parse.                                   *)
(***************************************************************************)
EXTENDS Integers, Sequences, FiniteSets, TLC

VARIABLES
    pc,                     \* the node the graph executes next, "END" or "ERROR"
    state,                  \* the AgentState dictionary
    groundedness_threshold, \* GroundednessNextStep.groundedness_threshold
    precision_threshold,    \* PrecisionHandler.precision_threshold
    max_loops,              \* PrecisionHandler.max_loops
    fallback_message,       \* MaxIterationsHandler.fallback_message
    trace,                  \* history: the nodes that completed, in order
    via,                    \* history: the node that routed to max_iterations_reached
    gpass,                  \* history: did each groundedness score meet the threshold
    ppass,                  \* history: did each precision score meet the threshold
    oracle,                 \* history: what the oracles returned last
    front,                  \* the front-end (console loop or web UI) and its current turn
    sessions                \* the runs of the graph in flight at once, one Session State each

vars == <<pc, state, groundedness_threshold, precision_threshold, max_loops,
          fallback_message, trace, via, gpass, ppass, oracle, front, sessions>>

(***************************************************************************)
(* Bounds of the model.                                                    *)
(***************************************************************************)
MaxIter == 3
MaxLoops == 3

\* No run with ceilings m and n is longer than this (TerminationC1 would fail
\* if one were); the guard only keeps the state space finite when a
\* definition is altered.
TraceCap(m, n) == 3 * m + 6 * n + 10

(***************************************************************************)
(* Program constants.                                                      *)
(***************************************************************************)
DefaultThreshold == 80
RetrieverK == 3

DefaultFallback == "We need more context to provide an accurate answer."

Queries == {"q1"}
Expansions == {"e1", "e2"}
Responses == {"r1", "r2"}
Suggestions == {"s1"}
Fallbacks == {DefaultFallback, "fb"}
Thresholds == {DefaultThreshold, 79, 50}

\* A Document of the vector store.
Document(name) == [page_content |-> name, metadata |-> [source |-> name]]

\* What the similarity oracle may return for search_kwargs k: at most k
\* documents, in the oracle's order.
SearchResults ==
    {r \in { <<>>,
             <<Document("d1")>>,
             <<Document("d2"), Document("d1"), Document("d3")>> } :
        Len(r) <= RetrieverK}

\* What the text-completion oracle may return to an evaluator.
ScoreTexts ==
    { <<"5">>, <<"7", ".", "9">>, <<"8", ".", "0">>, <<"1", "1">>,
      <<"-", "1">>, <<"a", "b", "c">> }

Nodes == {"expand_query", "retrieve_context", "generate_response",
          "score_groundedness", "refine_response", "check_precision",
          "refine_query", "max_iterations_reached"}

(***************************************************************************)
(* float(text) of the evaluators, for the texts of ScoreTexts: a decimal    *)
(* numeral with an optional sign and at most one digit after the point is  *)
(* parsed to its value in tenths; a text that is not a numeral raises      *)
(* ValueError.  (Numerals with more digits after the point are not among   *)
(* the modelled oracle outputs.)                                           *)
(***************************************************************************)
DigitChars == <<"0", "1", "2", "3", "4", "5", "6", "7", "8", "9">>

IsDigit(c) == \E i \in 1..Len(DigitChars) : DigitChars[i] = c

DigitVal(c) == (CHOOSE i \in 1..Len(DigitChars) : DigitChars[i] = c) - 1

RECURSIVE DigitsVal(_)
DigitsVal(s) ==
    IF s = <<>> THEN 0
    ELSE DigitsVal(SubSeq(s, 1, Len(s) - 1)) * 10 + DigitVal(s[Len(s)])

AllDigits(s) == \A i \in 1..Len(s) : IsDigit(s[i])

PointAt(s) == {i \in 1..Len(s) : s[i] = "."}

Unsigned(s) == IF s # <<>> /\ s[1] \in {"+", "-"} THEN Tail(s) ELSE s

Sign(s) == IF s # <<>> /\ s[1] = "-" THEN -1 ELSE 1

IsNumeral(s) ==
    LET u == Unsigned(s)
        p == PointAt(u)
    IN  \/ u # <<>> /\ AllDigits(u)
        \/ /\ Cardinality(p) = 1
           /\ LET i == CHOOSE j \in p : TRUE
                  a == SubSeq(u, 1, i - 1)
                  b == SubSeq(u, i + 1, Len(u))
              IN  /\ AllDigits(a) /\ AllDigits(b)
                  /\ Len(a) + Len(b) > 0
                  /\ Len(b) <= 1

ParseFloat(s) ==
    LET u == Unsigned(s)
        p == PointAt(u)
    IN  IF p = {} THEN Sign(s) * DigitsVal(u) * 10
        ELSE LET i == CHOOSE j \in p : TRUE
                 a == SubSeq(u, 1, i - 1)
                 b == SubSeq(u, i + 1, Len(u))
             IN  Sign(s) * (DigitsVal(a) * 10 + DigitsVal(b))

\* Altered: a text that float() rejects is scored 0 instead of raising.
ParseScoreDefault(text) ==
    IF IsNumeral(text)
    THEN [ok |-> TRUE, value |-> ParseFloat(text)]
    ELSE [ok |-> TRUE, value |-> 0]

\* float(self.chain.invoke(...)) of PrecisionEvaluator.evaluate: the value, or
\* ok = FALSE when float() raises ValueError.
ParseScore(text) ==
    IF IsNumeral(text)
    THEN [ok |-> TRUE, value |-> ParseFloat(text)]
    ELSE [ok |-> FALSE, value |-> 0]

\* The parse of GroundednessEvaluator.evaluate: a numeral in the range 0..10,
\* anything else is a parse error.
GroundednessParseScore(text) ==
    IF IsNumeral(text) /\ ParseFloat(text) >= 0 /\ ParseFloat(text) <= 100
    THEN [ok |-> TRUE, value |-> ParseFloat(text)]
    ELSE [ok |-> FALSE, value |-> 0]

(***************************************************************************)
(* The routing handlers: pure functions of the state and of the handler's  *)
(* own fields.                                                             *)
(***************************************************************************)
\* Altered: the ceiling is compared with >= instead of >.
GroundednessNextStepGE(st, threshold) ==
    IF st.groundedness_score >= threshold
    THEN "check_precision"
    ELSE IF st.groundedness_loop_count >= st.loop_max_iter
         THEN "max_iterations_reached"
         ELSE "refine_response"

\* Altered: when the ceiling is passed the response goes on to the precision
\* check.
GroundednessNextStepPassAtCeiling(st, threshold) ==
    IF st.groundedness_score >= threshold
          \/ st.groundedness_loop_count > st.loop_max_iter
    THEN "check_precision"
    ELSE "refine_response"

GroundednessNextStep(st, threshold) ==
    IF st.groundedness_score >= threshold
    THEN "check_precision"
    ELSE IF st.groundedness_loop_count > st.loop_max_iter
         THEN "max_iterations_reached"
         ELSE "refine_response"

\* Altered: the router counts the pass itself.
AfterGroundednessNextStepCounts(st) ==
    [st EXCEPT !.groundedness_loop_count = @ + 1]

\* The state after GroundednessNextStep.get_next_step returned: the method
\* assigns nothing.
AfterGroundednessNextStep(st) == st

\* Altered: the iteration ceiling is never consulted.
PrecisionHandlerNoCeiling(st, threshold, loops) ==
    IF st.precision_score >= threshold THEN "pass" ELSE "refine_query"

\* Altered: the ceiling is compared with >= instead of >.
PrecisionHandlerGE(st, threshold, loops) ==
    IF st.precision_score >= threshold
    THEN "pass"
    ELSE IF st.precision_loop_count >= loops
         THEN "max_iterations_reached"
         ELSE "refine_query"

\* Altered: the ceiling is the state's loop_max_iter, shared with the
\* groundedness router.
PrecisionHandlerShared(st, threshold, loops) ==
    IF st.precision_score < threshold
    THEN IF st.precision_loop_count > st.loop_max_iter
         THEN "max_iterations_reached"
         ELSE "refine_query"
    ELSE "pass"

\* Altered: one more pass is allowed before the ceiling applies.
PrecisionHandlerLate(st, threshold, loops) ==
    IF st.precision_score < threshold
    THEN IF st.precision_loop_count > loops + 1
         THEN "max_iterations_reached"
         ELSE "refine_query"
    ELSE "pass"

\* Altered: when the ceiling is passed the response is let through.
PrecisionHandlerPassAtCeiling(st, threshold, loops) ==
    IF st.precision_score >= threshold \/ st.precision_loop_count > loops
    THEN "pass"
    ELSE "refine_query"

\* Altered: a score equal to the threshold does not pass.
PrecisionHandlerStrict(st, threshold, loops) ==
    IF st.precision_score > threshold
    THEN "pass"
    ELSE IF st.precision_loop_count > loops
         THEN "max_iterations_reached"
         ELSE "refine_query"

PrecisionHandler(st, threshold, loops) ==
    IF st.precision_score >= threshold
    THEN "pass"
    ELSE IF st.precision_loop_count > loops
         THEN "max_iterations_reached"
         ELSE "refine_query"

\* The path maps of the two add_conditional_edges calls.
\* Altered: the router counts the pass itself.
AfterPrecisionHandlerCounts(st) ==
    [st EXCEPT !.precision_loop_count = @ + 1]

\* The state after PrecisionHandler.get_next_step returned: the method
\* assigns nothing.
AfterPrecisionHandler(st) == st

\* Altered: a response that is grounded ends the run, the precision check
\* is left out.
GroundednessPathMapSkipsPrecision(label) ==
    IF label = "check_precision" THEN "END" ELSE label

GroundednessPathMap(label) == label

\* Altered: "refine_query" is wired straight back to expand_query.
PrecisionPathMapSkip(label) ==
    IF label = "pass" THEN "END"
    ELSE IF label = "refine_query" THEN "expand_query" ELSE label

PrecisionPathMap(label) == IF label = "pass" THEN "END" ELSE label

(***************************************************************************)
(* The state built by AgenticRAG.process_query before workflow.invoke.     *)
(* create_workflow returns the graph it has wired; the model describes the *)
(* runs of that graph, entered through the edge START -> expand_query.     *)
(***************************************************************************)
InitialState(query, m) ==
    [ query                   |-> query,
      expanded_query          |-> "",
      context                 |-> <<>>,
      response                |-> "",
      precision_score         |-> 0,
      groundedness_score      |-> 0,
      groundedness_loop_count |-> 0,
      precision_loop_count    |-> 0,
      feedback                |-> <<>>,    \* "": a text is the sequence of its parts
      query_feedback          |-> <<>>,
      groundedness_check      |-> FALSE,
      loop_max_iter           |-> m ]

\* "loop_max_iter": 3 in process_query
LoopMaxIter == 3

\* Stands for the absence of a Session State before the first run. Between
\* runs the variable keeps the dictionary the last run left behind.
NoSessionState == InitialState("", LoopMaxIter)

\* The runs of the graph that may be in flight at once.
Sessions == {1, 2}

\* No run has been started.
NoSessions ==
    [i \in Sessions |->
        [pc |-> "idle", query |-> "", state |-> NoSessionState,
         trace |-> <<>>, answers |-> <<>>, overlapped |-> FALSE]]

NoOracle ==
    [search_in |-> "", search_docs |-> <<>>, score_text |-> <<>>, score_calls |-> 0,
     failed |-> FALSE, expanded |-> "",
     expand_calls |-> 0, first_expand_in |-> <<>>, expand_in |-> <<>>,
     generate_calls |-> 0, generate_in |-> <<>>, generated |-> "",
     groundedness_on |-> 0, precision_on |-> 0]

\* No verdict: the filter has not been called.
NoVerdict == [none |-> TRUE, value |-> <<>>]

\* Nothing was handed to the long-term memory.
NoInteraction == [message |-> "", response |-> ""]

\* A front-end that has processed nothing yet.
NoFront(path, at) ==
    [path |-> path, at |-> at, input |-> "", query |-> "", guard |-> <<>>,
     classified |-> FALSE, verdict |-> NoVerdict,
     shown |-> [kind |-> "none", text |-> ""], runs |-> 0, turns |-> 0,
     last_run |-> "none",
     searches |-> 0, answered |-> FALSE, answer |-> "", records |-> 0,
     recorded |-> NoInteraction]


Init ==
    /\ pc = "expand_query"
    /\ \E q \in Queries, m \in 0..MaxIter : state = InitialState(q, m)
    /\ groundedness_threshold = DefaultThreshold
    /\ precision_threshold = DefaultThreshold
    /\ max_loops \in 0..MaxLoops
    /\ fallback_message \in Fallbacks
    /\ trace = <<>>
    /\ via = "none"
    /\ gpass = <<>>
    /\ ppass = <<>>
    /\ oracle = NoOracle
    /\ front = NoFront("none", "tool")
    /\ sessions = NoSessions

Config == <<groundedness_threshold, precision_threshold, max_loops, fallback_message>>

\* The unconditional edges of the graph.
\* Altered: expand_query leads straight to generate_response.
EdgeSkipsRetrieval(node) ==
    CASE node = "expand_query" -> "generate_response"
      [] node = "retrieve_context" -> "generate_response"
      [] node = "generate_response" -> "score_groundedness"
      [] node = "refine_response" -> "generate_response"
      [] node = "refine_query" -> "expand_query"
      [] node = "max_iterations_reached" -> "END"

Edge(node) ==
    CASE node = "expand_query" -> "retrieve_context"
      [] node = "retrieve_context" -> "generate_response"
      [] node = "generate_response" -> "score_groundedness"
      [] node = "refine_response" -> "generate_response"
      [] node = "refine_query" -> "expand_query"
      [] node = "max_iterations_reached" -> "END"

\* The keys of the state a node (the conditional edge after it included)
\* reads.
Reads(node) ==
    CASE node = "expand_query" -> {"query"}
      [] node = "retrieve_context" -> {"expanded_query"}
      [] node = "generate_response" -> {"query", "context", "feedback"}
      [] node = "score_groundedness" ->
            {"context", "response", "groundedness_loop_count",
             "groundedness_score", "loop_max_iter"}
      [] node = "refine_response" -> {"query", "response"}
      [] node = "check_precision" ->
            {"query", "response", "precision_loop_count", "precision_score"}
      [] node = "refine_query" -> {"query", "expanded_query"}
      [] node = "max_iterations_reached" -> {}

\* A node ran to completion: record it and follow the edge to next.
Step(node, next) ==
    /\ Len(trace) < TraceCap(state.loop_max_iter, max_loops)
    /\ pc' = next
    /\ trace' = Append(trace, node)
    /\ via' = IF next = "max_iterations_reached" THEN node ELSE via
    /\ UNCHANGED Config
    /\ UNCHANGED sessions
    /\ UNCHANGED front

(***************************************************************************)
(* The nodes.                                                              *)
(***************************************************************************)
\* What each node hands to its oracle.
\* Altered: the expansion prompt is also given the query feedback.
ExpandInputWithFeedback(st) ==
    [query |-> st.query, query_feedback |-> st.query_feedback]

ExpandInput(st) == [query |-> st.query]

\* Altered: the search is made with the user's query.
SearchInputQuery(st) == st.query

\* query = state['expanded_query']
SearchInput(st) == st.expanded_query

\* "\n".join(parts)
RECURSIVE Join(_)
Join(parts) ==
    IF Len(parts) <= 1 THEN parts
    ELSE <<Head(parts), "\n">> \o Join(Tail(parts))

GenerateInput(st) ==
    [query |-> st.query,
     context |-> Join([i \in 1..Len(st.context) |-> st.context[i].content]),
     feedback |-> st.feedback]

GroundednessInput(st) ==
    [context |-> Join([i \in 1..Len(st.context) |-> st.context[i].content]),
     response |-> st.response]

PrecisionInput(st) == [query |-> st.query, response |-> st.response]

ResponseFeedbackInput(st) == [query |-> st.query, response |-> st.response]

QueryFeedbackInput(st) == [query |-> st.query, expanded_query |-> st.expanded_query]

\* Altered: the expansion is written over the user's query.
ExpandedOverQuery(st, expansion) == [st EXCEPT !.query = expansion]

\* QueryExpander.expand_query, given what the chain returned.
Expanded(st, expansion) == [st EXCEPT !.expanded_query = expansion]

ExpandQuery ==
    /\ pc = "expand_query"
    /\ \E e \in Expansions :
          /\ state' = Expanded(state, e)
          /\ oracle' = [oracle EXCEPT
                           !.expanded = e,
                           !.expand_calls = @ + 1,
                           !.expand_in = ExpandInput(state),
                           !.first_expand_in =
                               IF oracle.expand_calls = 0 THEN ExpandInput(state) ELSE @]
    /\ Step("expand_query", Edge("expand_query"))
    /\ UNCHANGED <<gpass, ppass>>

ContextOf(docs) ==
    [i \in 1..Len(docs) |->
        [content |-> docs[i].page_content, metadata |-> docs[i].metadata]]

\* Altered: the documents are added to the context already there.
RetrievedAppended(st, docs) == [st EXCEPT !.context = @ \o ContextOf(docs)]

\* ContextRetriever.retrieve_context, given what the retriever returned.
Retrieved(st, docs) == [st EXCEPT !.context = ContextOf(docs)]

RetrieveContext ==
    /\ pc = "retrieve_context"
    /\ \E docs \in SearchResults :
          /\ state' = Retrieved(state, docs)
          /\ oracle' = [oracle EXCEPT !.search_in = SearchInput(state),
                                      !.search_docs = docs]
    /\ Step("retrieve_context", Edge("retrieve_context"))
    /\ UNCHANGED <<gpass, ppass>>

\* ResponseGenerator.generate_response, given what the chain returned.
Generated(st, response) == [st EXCEPT !.response = response]

GenerateResponse ==
    /\ pc = "generate_response"
    /\ \E r \in Responses :
          /\ state' = Generated(state, r)
          /\ oracle' = [oracle EXCEPT
                           !.generate_calls = @ + 1,
                           !.generate_in = GenerateInput(state),
                           !.generated = r]
    /\ Step("generate_response", Edge("generate_response"))
    /\ UNCHANGED <<gpass, ppass>>

\* The node raised: the exception leaves workflow.invoke, nothing else runs.
Raise ==
    /\ pc' = "ERROR"
    /\ UNCHANGED <<state, trace, via, gpass, ppass, front>>
    /\ UNCHANGED Config
    /\ UNCHANGED sessions

\* GroundednessEvaluator.evaluate followed by the conditional edge.
GroundednessEvaluate(st, text) ==
    [st EXCEPT !.groundedness_score = GroundednessParseScore(text).value,
               !.groundedness_loop_count = @ + 1]

ScoreGroundedness ==
    /\ pc = "score_groundedness"
    /\ \E text \in ScoreTexts :
          /\ oracle' = [oracle EXCEPT !.score_text = text, !.score_calls = @ + 1,
                                      !.groundedness_on = oracle.generate_calls]
          /\ IF GroundednessParseScore(text).ok
             THEN /\ state' = AfterGroundednessNextStep(GroundednessEvaluate(state, text))
                  /\ Step("score_groundedness",
                          GroundednessPathMap(
                              GroundednessNextStep(GroundednessEvaluate(state, text),
                                                   groundedness_threshold)))
                  /\ gpass' = Append(gpass, ParseFloat(text) >= groundedness_threshold)
                  /\ ppass' = ppass
             ELSE Raise

\* ResponseFeedbackProvider.provide_feedback
\* Altered: the new feedback is added to the feedback already there.
ResponseFeedbackAppends(st, suggestions) ==
    [st EXCEPT !.feedback =
        @ \o <<"Previous Response: ", st.response, "\nSuggestions: ", suggestions>>]

ResponseFeedback(st, suggestions) ==
    [st EXCEPT !.feedback =
        <<"Previous Response: ", st.response, "\nSuggestions: ", suggestions>>]

RefineResponse ==
    /\ pc = "refine_response"
    /\ \E s \in Suggestions : state' = ResponseFeedback(state, s)
    /\ Step("refine_response", Edge("refine_response"))
    /\ UNCHANGED <<gpass, ppass, oracle>>

\* PrecisionEvaluator.evaluate followed by the conditional edge.
\* Altered: the loop counter is not incremented.
PrecisionEvaluateNoCount(st, text) ==
    [st EXCEPT !.precision_score = ParseScore(text).value]

\* Altered: the groundedness counter is incremented instead.
PrecisionEvaluateWrongCount(st, text) ==
    [st EXCEPT !.precision_score = ParseScore(text).value,
               !.groundedness_loop_count = @ + 1]

PrecisionEvaluate(st, text) ==
    [st EXCEPT !.precision_score = ParseScore(text).value,
               !.precision_loop_count = @ + 1]

CheckPrecision ==
    /\ pc = "check_precision"
    /\ \E text \in ScoreTexts :
          /\ oracle' = [oracle EXCEPT !.score_text = text, !.score_calls = @ + 1,
                                      !.precision_on = oracle.generate_calls]
          /\ IF ParseScore(text).ok
             THEN /\ state' = AfterPrecisionHandler(PrecisionEvaluate(state, text))
                  /\ Step("check_precision",
                          PrecisionPathMap(
                              PrecisionHandler(PrecisionEvaluate(state, text),
                                               precision_threshold, max_loops)))
                  /\ ppass' = Append(ppass, ParseScore(text).value >= precision_threshold)
                  /\ gpass' = gpass
             ELSE Raise

\* QueryFeedbackProvider.provide_feedback
\* Altered: the suggestions also replace the expanded query.
QueryFeedbackOverExpanded(st, suggestions) ==
    [st EXCEPT !.query_feedback =
                   <<"Previous Expanded Query: ", st.expanded_query, "\nSuggestions: ", suggestions>>,
               !.expanded_query = suggestions]

\* Altered: a new outer iteration starts the groundedness count again.
QueryFeedbackResetsCount(st, suggestions) ==
    [st EXCEPT !.query_feedback =
                   <<"Previous Expanded Query: ", st.expanded_query, "\nSuggestions: ", suggestions>>,
               !.groundedness_loop_count = 0]

\* Altered: a new outer iteration starts with the response feedback cleared.
QueryFeedbackClearsFeedback(st, suggestions) ==
    [st EXCEPT !.query_feedback =
                   <<"Previous Expanded Query: ", st.expanded_query, "\nSuggestions: ", suggestions>>,
               !.feedback = <<>>]

QueryFeedback(st, suggestions) ==
    [st EXCEPT !.query_feedback =
        <<"Previous Expanded Query: ", st.expanded_query, "\nSuggestions: ", suggestions>>]

RefineQuery ==
    /\ pc = "refine_query"
    /\ \E s \in Suggestions : state' = QueryFeedback(state, s)
    /\ Step("refine_query", Edge("refine_query"))
    /\ UNCHANGED <<gpass, ppass, oracle>>

\* MaxIterationsHandler.handle_max_iterations
\* Altered: the fallback only fills in a missing response ... the response
\* that was generated is kept.
HandleMaxIterationsKeep(st, message) ==
    IF st.response = "" THEN [st EXCEPT !.response = message] ELSE st

HandleMaxIterations(st, message) == [st EXCEPT !.response = message]

MaxIterationsReached ==
    /\ pc = "max_iterations_reached"
    /\ state' = HandleMaxIterations(state, fallback_message)
    /\ Step("max_iterations_reached", Edge("max_iterations_reached"))
    /\ UNCHANGED <<gpass, ppass, oracle>>

\* A text-completion or similarity-search call fails inside a node.
OracleFailure ==
    /\ pc \in Nodes \ {"max_iterations_reached"}
    /\ Raise
    /\ oracle' = [oracle EXCEPT !.failed = TRUE]

NextOK ==
    \/ ExpandQuery
    \/ RetrieveContext
    \/ GenerateResponse
    \/ ScoreGroundedness
    \/ RefineResponse
    \/ CheckPrecision
    \/ RefineQuery
    \/ MaxIterationsReached

Next ==
    \/ NextOK
    \/ OracleFailure

Spec == Init /\ [][Next]_vars

\* workflow.invoke runs the graph until END or an exception: a step that can
\* be taken is taken.
FairSpec == Spec /\ WF_vars(Next)

(***************************************************************************)
(* The front-ends: the console loop of NutritionAgent.run and the web UI's *)
(* handle_user_input.  A turn reads one input; the console passes it       *)
(* through the content-safety filter and hands an accepted query to the    *)
(* bot, whose agent may call the agentic_rag tool, which runs the graph.   *)
(***************************************************************************)
MaxTurns == 2

DefaultMaxLoops == 3

AcceptedVerdicts ==
    { <<"safe">>, <<"unsafe", " ", "S6">>, <<"unsafe", " ", "S7">> }

RejectionMessage ==
    "Agent: I apologize, but I cannot process that input as it may be inappropriate. Please try again."

ConsoleErrorMessage ==
    "Agent: Sorry, I encountered an error while processing your query. Please try again."

ConsoleGoodbye == "Agent: Goodbye! Feel free to return if you have more questions."

WebGoodbye ==
    "Goodbye! Feel free to return if you have more questions about nutrition disorders."

WebErrorMessage ==
    "Sorry, I encountered an error: 'NutritionAgent' object has no attribute 'handle_customer_query'"

\* What the user may type.
UserInputs == {"q1", "Exit"}

\* str.lower on the inputs.
Lower(text) == IF text \in {"Exit", "EXIT", "exit"} THEN "exit" ELSE text

\* What the Llama Guard completion may contain for an input, as tokens; <<>>
\* stands for a call that raises.
GuardOutputs ==
    { <<"safe">>,
      <<"\n", "unsafe", "\n", "S6">>,
      <<"unsafe", "\n", "S7">>,
      <<"unsafe", "\n", "S1">>,
      <<"unsafe", "\n", "S1,S6", "\n">>,
      <<>> }

Whitespace == {" ", "\n", "\t"}

RECURSIVE LStrip(_)
LStrip(s) ==
    IF s # <<>> /\ Head(s) \in Whitespace THEN LStrip(Tail(s)) ELSE s

RECURSIVE RStrip(_)
RStrip(s) ==
    IF s # <<>> /\ s[Len(s)] \in Whitespace
    THEN RStrip(SubSeq(s, 1, Len(s) - 1))
    ELSE s

\* str.strip().replace("\n", " ")
Normalize(s) ==
    LET t == RStrip(LStrip(s))
    IN  [i \in 1..Len(t) |-> IF t[i] = "\n" THEN " " ELSE t[i]]

\* GuardFilter.filter: the normalized completion, or None when the call raises.
GuardFilter(output) ==
    IF output = <<>>
    THEN [none |-> TRUE, value |-> <<>>]
    ELSE [none |-> FALSE, value |-> Normalize(output)]

\* Altered: a filter that failed lets the query through.
AcceptedFailOpen(verdict) ==
    verdict.none \/ verdict.value \in AcceptedVerdicts

\* filtered_result in ["safe", "unsafe S6", "unsafe S7"]
Accepted(verdict) ==
    ~verdict.none /\ verdict.value \in AcceptedVerdicts

EntryInit ==
    /\ pc = "idle"
    /\ state = NoSessionState
    /\ groundedness_threshold = DefaultThreshold
    /\ precision_threshold = DefaultThreshold
    /\ max_loops = DefaultMaxLoops
    /\ fallback_message = DefaultFallback
    /\ trace = <<>>
    /\ via = "none"
    /\ gpass = <<>>
    /\ ppass = <<>>
    /\ oracle = NoOracle
    /\ \E path \in {"console", "web"} : front = NoFront(path, "input")
    /\ sessions = NoSessions

Idle ==
    /\ pc = "idle"
    /\ UNCHANGED <<pc, state, trace, via, gpass, ppass, oracle>>
    /\ UNCHANGED Config
    /\ UNCHANGED sessions

\* A new turn begins; the histories are those of one turn.
NewTurn ==
    /\ pc = "idle"
    /\ pc' = "idle"
    /\ state' = state
    /\ trace' = <<>>
    /\ via' = "none"
    /\ gpass' = <<>>
    /\ ppass' = <<>>
    /\ oracle' = NoOracle
    /\ UNCHANGED Config
    /\ UNCHANGED sessions

\* The turn is over with this output; the loop reads the next input.
Shown(fr, kind, text) ==
    [fr EXCEPT !.shown = [kind |-> kind, text |-> text],
               !.at = "input",
               !.turns = @ + 1]

\* One pass of the loop of NutritionAgent.run, up to the call of the bot.
ConsoleInput ==
    /\ front.path = "console"
    /\ front.at = "input"
    /\ front.turns < MaxTurns
    /\ NewTurn
    /\ \E text \in UserInputs, output \in GuardOutputs :
          IF Lower(text) = "exit"
          THEN front' = [front EXCEPT !.input = text,
                            !.at = "stopped",
                            !.shown = [kind |-> "goodbye", text |-> ConsoleGoodbye]]
          ELSE LET fr == [front EXCEPT !.input = text,
                                       !.query = text,
                                       !.guard = output,
                                       !.classified = TRUE,
                                       !.verdict = GuardFilter(output),
                                       !.shown = [kind |-> "none", text |-> ""],
                                       !.runs = 0,
                                       !.searches = 0,
                                       !.answered = FALSE,
                                       !.answer = "",
                                       !.records = 0,
                                       !.recorded = NoInteraction]
               IN  IF Accepted(fr.verdict)
                   THEN front' = [fr EXCEPT !.at = "bot"]
                   ELSE front' = Shown(fr, "rejection", RejectionMessage)

\* Altered: the dictionary of the last run is used again, with the new query.
ProcessQueryStateKept(st, query) == [st EXCEPT !.query = query]

\* initial_state of AgenticRAG.process_query: a new dictionary, whatever the
\* last run left.
ProcessQueryState(st, query) == InitialState(query, LoopMaxIter)

\* The agent of NutritionBot.handle_customer_query calls the agentic_rag
\* tool: process_query builds the initial state and invokes the workflow.
AgentCallsTool ==
    /\ front.at = "bot"
    /\ front.searches = 1
    /\ front.runs = 0
    /\ pc = "idle"
    /\ \E q \in Queries : state' = ProcessQueryState(state, q)
    /\ pc' = "expand_query"
    /\ trace' = <<>>
    /\ via' = "none"
    /\ gpass' = <<>>
    /\ ppass' = <<>>
    /\ oracle' = NoOracle
    /\ front' = [front EXCEPT !.at = "tool", !.runs = @ + 1]
    /\ UNCHANGED Config
    /\ UNCHANGED sessions

\* The workflow returned its final state to the agent.
ToolReturns ==
    /\ front.at = "tool"
    /\ pc = "END"
    /\ pc' = "idle"
    /\ front' = [front EXCEPT !.at = "bot",
                              !.last_run = IF via = "none" THEN "pass" ELSE "max"]
    /\ UNCHANGED <<state, trace, via, gpass, ppass, oracle>>
    /\ UNCHANGED Config
    /\ UNCHANGED sessions

\* Altered: the caller shows the response left in the state of the failed run.
ConsoleCaughtShowsResponse(fr, st) == Shown(fr, "response", st.response)

\* except Exception of NutritionAgent.run
ConsoleCaught(fr, st) == Shown(fr, "error", ConsoleErrorMessage)

\* The workflow raised: the exception leaves process_query, the tool, the
\* agent executor and handle_customer_query and is caught by the loop.
ToolRaises ==
    /\ front.at = "tool"
    /\ pc = "ERROR"
    /\ pc' = "idle"
    /\ front' = [ConsoleCaught(front, state) EXCEPT !.last_run = "error"]
    /\ UNCHANGED <<state, trace, via, gpass, ppass, oracle>>
    /\ UNCHANGED Config
    /\ UNCHANGED sessions

\* get_relevant_history: memory.search is called.
\* Altered: the customer's message is stored when the history is fetched.
SearchedStoresMessage(fr) ==
    [fr EXCEPT !.searches = @ + 1,
               !.records = @ + 1,
               !.recorded = [message |-> fr.query, response |-> ""]]

Searched(fr) == [fr EXCEPT !.searches = @ + 1]

\* response = self.agent_executor.invoke(...)
Answered(fr, text) == [fr EXCEPT !.answered = TRUE, !.answer = text, !.at = "store"]

\* store_customer_interaction: memory.add is called with the query and the
\* agent's output.
Stored(fr) ==
    [fr EXCEPT !.records = @ + 1,
               !.recorded = [message |-> fr.query, response |-> fr.answer]]

\* handle_customer_query begins by searching the long-term memory for the
\* history relevant to the query.
SearchMemory ==
    /\ front.at = "bot"
    /\ front.searches = 0
    /\ Idle
    /\ front' = Searched(front)

\* memory.search raises: the exception leaves handle_customer_query.
SearchFails ==
    /\ front.at = "bot"
    /\ front.searches = 0
    /\ Idle
    /\ front' = ConsoleCaught(Searched(front), state)

\* The agent gives its final answer: a text of its own or the response of
\* the tool.
AgentAnswers ==
    /\ front.at = "bot"
    /\ front.searches = 1
    /\ Idle
    /\ \E text \in Responses \cup (IF front.runs > 0 THEN {state.response} ELSE {}) :
          front' = Answered(front, text)

\* The agent's completion raises.
AgentFails ==
    /\ front.at = "bot"
    /\ front.searches = 1
    /\ Idle
    /\ front' = ConsoleCaught(front, state)

\* The interaction is handed to the long-term memory, handle_customer_query
\* returns the agent's output and the loop prints it.
StoreInteraction ==
    /\ front.at = "store"
    /\ Idle
    /\ front' = Shown(Stored(front), "response", front.answer)

\* memory.add raises: the exception leaves handle_customer_query.
StoreFails ==
    /\ front.at = "store"
    /\ Idle
    /\ front' = ConsoleCaught(Stored(front), state)

\* handle_user_input of the web UI.
WebInput ==
    /\ front.path = "web"
    /\ front.at = "input"
    /\ front.turns < MaxTurns
    /\ NewTurn
    /\ \E text \in UserInputs \cup {""}, output \in GuardOutputs, allowed \in BOOLEAN :
          IF text = ""
          THEN front' = [front EXCEPT !.turns = @ + 1]
          ELSE IF Lower(text) = "exit"
          THEN front' = [front EXCEPT !.at = "stopped",
                            !.shown = [kind |-> "goodbye", text |-> WebGoodbye]]
          ELSE IF ~allowed
          THEN front' = Shown(front, "rate_limit", "")
          ELSE front' = Shown([front EXCEPT !.query = text,
                                            !.guard = output,
                                            !.classified = FALSE,
                                            !.verdict = NoVerdict,
                                            !.runs = 0,
                                            !.searches = 0,
                                            !.answered = FALSE,
                                            !.answer = "",
                                            !.records = 0,
                                            !.recorded = NoInteraction],
                              "error", WebErrorMessage)

GraphStep ==
    /\ front.at = "tool"
    /\ Next

EntryNext ==
    \/ ConsoleInput
    \/ WebInput
    \/ AgentCallsTool
    \/ GraphStep
    \/ ToolReturns
    \/ ToolRaises
    \/ SearchMemory
    \/ SearchFails
    \/ AgentAnswers
    \/ AgentFails
    \/ StoreInteraction
    \/ StoreFails

EntrySpec == EntryInit /\ [][EntryNext]_vars

(***************************************************************************)
(* Two runs of the graph at once.  The module-level AgenticRAG instance    *)
(* and the component objects WorkflowBuilder.__init__ created are the same *)
(* for both; each call of process_query has its own dictionary.  A step of *)
(* the program is one node of one session.                                 *)
(***************************************************************************)
\* The query each session asks.
SessionQuery(i) == IF i = 1 THEN "q1" ELSE "q2"

ConcurrentScoreTexts == {<<"5">>, <<"8", ".", "0">>}

\* What the oracle of a node may answer in this specification.
Answers(node) ==
    CASE node = "expand_query" -> {"e1"}
      [] node = "retrieve_context" -> {<<Document("d1")>>}
      [] node = "generate_response" -> {"r1"}
      [] node = "score_groundedness" -> ConcurrentScoreTexts
      [] node = "refine_response" -> Suggestions
      [] node = "check_precision" -> ConcurrentScoreTexts
      [] node = "refine_query" -> Suggestions
      [] OTHER -> {"none"}

\* workflow.invoke(initial_state) has just been called.
Invoked(query, st) ==
    [pc |-> "expand_query", query |-> query, state |-> st,
     trace |-> <<>>, answers |-> <<>>, overlapped |-> FALSE]

\* One node of a run, given its oracle's answer: the node's update of the
\* run's own dictionary, then the edge out of the node.
InvokeNode(run, a) ==
    LET st == run.state
        Done(next, new) ==
            [run EXCEPT !.pc = next, !.state = new,
                        !.trace = Append(@, run.pc), !.answers = Append(@, a)]
        Raised == [run EXCEPT !.pc = "ERROR", !.answers = Append(@, a)]
    IN  CASE run.pc = "expand_query" -> Done(Edge("expand_query"), Expanded(st, a))
          [] run.pc = "retrieve_context" -> Done(Edge("retrieve_context"), Retrieved(st, a))
          [] run.pc = "generate_response" -> Done(Edge("generate_response"), Generated(st, a))
          [] run.pc = "score_groundedness" ->
                IF GroundednessParseScore(a).ok
                THEN Done(GroundednessPathMap(
                              GroundednessNextStep(GroundednessEvaluate(st, a),
                                                   groundedness_threshold)),
                          AfterGroundednessNextStep(GroundednessEvaluate(st, a)))
                ELSE Raised
          [] run.pc = "refine_response" -> Done(Edge("refine_response"), ResponseFeedback(st, a))
          [] run.pc = "check_precision" ->
                IF ParseScore(a).ok
                THEN Done(PrecisionPathMap(
                              PrecisionHandler(PrecisionEvaluate(st, a),
                                               precision_threshold, max_loops)),
                          AfterPrecisionHandler(PrecisionEvaluate(st, a)))
                ELSE Raised
          [] run.pc = "refine_query" -> Done(Edge("refine_query"), QueryFeedback(st, a))
          [] run.pc = "max_iterations_reached" ->
                Done(Edge("max_iterations_reached"), HandleMaxIterations(st, fallback_message))
          [] OTHER -> run

Other(i) == CHOOSE j \in Sessions : j # i

ConcurrentInit ==
    /\ pc = "sessions"
    /\ state = NoSessionState
    /\ groundedness_threshold = DefaultThreshold
    /\ precision_threshold = DefaultThreshold
    /\ max_loops = DefaultMaxLoops
    /\ fallback_message = DefaultFallback
    /\ trace = <<>>
    /\ via = "none"
    /\ gpass = <<>>
    /\ ppass = <<>>
    /\ oracle = NoOracle
    /\ front = NoFront("none", "tool")
    /\ sessions = NoSessions

\* agentic_rag(query) is called for session i: process_query builds the
\* run's dictionary; the dictionary the instance worked on last is the
\* other session's.
StartSession(i) ==
    /\ sessions[i].pc = "idle"
    /\ sessions' = [sessions EXCEPT
                        ![i] = Invoked(SessionQuery(i),
                                       ProcessQueryState(sessions[Other(i)].state,
                                                         SessionQuery(i)))]
    /\ UNCHANGED <<pc, state, trace, via, gpass, ppass, oracle, front>>
    /\ UNCHANGED Config

\* Session i executes the node it is at.
SessionNode(i) ==
    /\ sessions[i].pc \in Nodes
    /\ Len(sessions[i].trace) < TraceCap(sessions[i].state.loop_max_iter, max_loops)
    /\ \E a \in Answers(sessions[i].pc) :
          sessions' = [sessions EXCEPT
                          ![i] = [InvokeNode(@, a) EXCEPT
                                     !.overlapped =
                                         \/ @
                                         \/ /\ sessions[Other(i)].pc \in Nodes
                                            /\ sessions[Other(i)].trace # <<>>]]
    /\ UNCHANGED <<pc, state, trace, via, gpass, ppass, oracle, front>>
    /\ UNCHANGED Config

ConcurrentNext == \E i \in Sessions : StartSession(i) \/ SessionNode(i)

ConcurrentSpec == ConcurrentInit /\ [][ConcurrentNext]_vars

\* The same run on its own: the graph from process_query's initial state,
\* its oracles giving the answers in the order given.
RECURSIVE RunAlone(_, _)
RunAlone(run, answers) ==
    IF answers = <<>> THEN run
    ELSE RunAlone(InvokeNode(run, Head(answers)), Tail(answers))

Alone(i) ==
    RunAlone(Invoked(sessions[i].query, InitialState(sessions[i].query, LoopMaxIter)),
             sessions[i].answers)

(***************************************************************************)
(* The routers on their own: get_next_step applied to a state whose scores *)
(* and counters are arbitrary, by handlers with arbitrary thresholds.      *)
(***************************************************************************)
RouterScores == {0, 49, 50, 79, 80, 81, 100}

RouterCounts == 0..(MaxIter + MaxLoops)

\* How often a router is evaluated on one state.
RouterCalls == 2

RouterInit ==
    /\ pc = "get_next_step"
    /\ \E gs \in RouterScores, ps \in RouterScores,
          gc \in RouterCounts, pcount \in RouterCounts, m \in 0..MaxIter :
          state = [InitialState("q1", m) EXCEPT
                      !.groundedness_score = gs,
                      !.precision_score = ps,
                      !.groundedness_loop_count = gc,
                      !.precision_loop_count = pcount]
    /\ groundedness_threshold \in Thresholds
    /\ precision_threshold \in Thresholds
    /\ max_loops \in 0..MaxLoops
    /\ fallback_message = DefaultFallback
    /\ trace = <<>>
    /\ via = "none"
    /\ gpass = <<>>
    /\ ppass = <<>>
    /\ oracle = NoOracle
    /\ front = NoFront("none", "tool")
    /\ sessions = NoSessions

\* In this specification trace is the sequence of labels the router returned.
CallGroundednessNextStep ==
    /\ \/ pc = "get_next_step"
       \/ via = "GroundednessNextStep" /\ Len(trace) < RouterCalls
    /\ pc' = GroundednessNextStep(state, groundedness_threshold)
    /\ state' = AfterGroundednessNextStep(state)
    /\ trace' = Append(trace, pc')
    /\ via' = "GroundednessNextStep"
    /\ UNCHANGED <<gpass, ppass, oracle, front>>
    /\ UNCHANGED Config
    /\ UNCHANGED sessions

CallPrecisionHandler ==
    /\ \/ pc = "get_next_step"
       \/ via = "PrecisionHandler" /\ Len(trace) < RouterCalls
    /\ pc' = PrecisionHandler(state, precision_threshold, max_loops)
    /\ state' = AfterPrecisionHandler(state)
    /\ trace' = Append(trace, pc')
    /\ via' = "PrecisionHandler"
    /\ UNCHANGED <<gpass, ppass, oracle, front>>
    /\ UNCHANGED Config
    /\ UNCHANGED sessions

RouterNext ==
    \/ CallGroundednessNextStep
    \/ CallPrecisionHandler

RouterSpec == RouterInit /\ [][RouterNext]_vars

(***************************************************************************)
(* Helpers of the properties.                                              *)
(***************************************************************************)
RECURSIVE Count(_, _)
Count(seq, x) ==
    IF seq = <<>> THEN 0
    ELSE (IF Head(seq) = x THEN 1 ELSE 0) + Count(Tail(seq), x)

Visits(node) == Count(trace, node)

\* C1: every run in which no oracle call and no score parse fails (the run
\* never ends in ERROR) eventually reaches END, for every loop_max_iter,
\* every max_loops and every sequence of scores.
TerminationC1 == <>(pc = "ERROR") \/ <>(pc = "END")

\* A run that went through both refinement loops and ended.
WitnessC1 ==
    /\ pc = "END"
    /\ Visits("refine_response") >= 1
    /\ Visits("refine_query") >= 1
    /\ state.loop_max_iter = MaxIter
    /\ max_loops = MaxLoops

\* The edges of the graph: add_edge and the targets of the two path maps.
TransitionTable ==
    { <<"expand_query", "retrieve_context">>,
      <<"retrieve_context", "generate_response">>,
      <<"generate_response", "score_groundedness">>,
      <<"score_groundedness", "check_precision">>,
      <<"score_groundedness", "refine_response">>,
      <<"score_groundedness", "max_iterations_reached">>,
      <<"refine_response", "generate_response">>,
      <<"check_precision", "END">>,
      <<"check_precision", "refine_query">>,
      <<"check_precision", "max_iterations_reached">>,
      <<"refine_query", "expand_query">>,
      <<"max_iterations_reached", "END">> }

\* C2: the run starts at expand_query and every step of the graph is one of
\* the 12 transitions of the table; after score_groundedness and after
\* check_precision the target is the one the router names for the state the
\* evaluator left; nothing follows END.  (A step to ERROR is an exception
\* leaving the graph from inside a node, not a transition of the graph.)
TransitionsC2 ==
    /\ pc = "expand_query"
    /\ [][ IF pc' = "ERROR"
           THEN pc \in Nodes
           ELSE /\ <<pc, pc'>> \in TransitionTable
                /\ pc = "score_groundedness" =>
                      pc' = GroundednessNextStep(state', groundedness_threshold)
                /\ pc = "check_precision" =>
                      LET label == PrecisionHandler(state', precision_threshold, max_loops)
                      IN  pc' = IF label = "pass" THEN "END" ELSE label ]_vars

\* A finished run that took the three conditional targets that are nodes.
WitnessC2 ==
    /\ pc = "END"
    /\ Visits("refine_response") >= 1
    /\ Visits("refine_query") >= 1
    /\ Visits("max_iterations_reached") = 1

\* C3: GroundednessNextStep returns check_precision iff the score is at
\* least the threshold (equality included), max_iterations_reached iff the
\* score is below the threshold and the count exceeds loop_max_iter, and
\* refine_response in every other case, in particular at count = ceiling.
GroundednessRouterLawC3 ==
    via = "GroundednessNextStep" =>
        LET s == state.groundedness_score
            c == state.groundedness_loop_count
            m == state.loop_max_iter
            t == groundedness_threshold
        IN  /\ pc \in {"check_precision", "max_iterations_reached", "refine_response"}
            /\ pc = "check_precision" <=> s >= t
            /\ pc = "max_iterations_reached" <=> (s < t /\ c > m)
            /\ (s < t /\ c = m) => pc = "refine_response"
            /\ (s = DefaultThreshold /\ t = DefaultThreshold) => pc = "check_precision"

\* Below the threshold with the count equal to the ceiling: refine_response.
WitnessC3 ==
    /\ via = "GroundednessNextStep"
    /\ pc = "refine_response"
    /\ state.groundedness_score < groundedness_threshold
    /\ state.groundedness_loop_count = state.loop_max_iter
    /\ state.loop_max_iter = 3

\* C4: PrecisionHandler returns pass iff the score is at least its
\* threshold, max_iterations_reached iff the score is below the threshold
\* and the count exceeds the handler's max_loops, and refine_query
\* otherwise.
PrecisionRouterLawC4 ==
    via = "PrecisionHandler" =>
        LET s == state.precision_score
            c == state.precision_loop_count
            n == max_loops
            t == precision_threshold
        IN  /\ pc \in {"pass", "max_iterations_reached", "refine_query"}
            /\ pc = "pass" <=> s >= t
            /\ pc = "max_iterations_reached" <=> (s < t /\ c > n)
            /\ pc = "refine_query" <=> (s < t /\ c <= n)

\* Below the threshold, over loop_max_iter but not over max_loops: the
\* handler's own ceiling decides.
WitnessC4 ==
    /\ via = "PrecisionHandler"
    /\ pc = "refine_query"
    /\ state.precision_score < precision_threshold
    /\ state.precision_loop_count = max_loops
    /\ state.precision_loop_count > state.loop_max_iter

AllBelow(passes) == \A i \in 1..Len(passes) : ~passes[i]

AllMet(passes) == \A i \in 1..Len(passes) : passes[i]

\* C5: both counters start at 0 and each completed evaluation adds exactly 1
\* to its own counter: at any point of a run groundedness_loop_count is the
\* number of completed score_groundedness passes and precision_loop_count
\* the number of completed check_precision passes.
CountersC5 ==
    /\ state.groundedness_loop_count = Visits("score_groundedness")
    /\ state.groundedness_loop_count = Len(gpass)
    /\ state.precision_loop_count = Visits("check_precision")
    /\ state.precision_loop_count = Len(ppass)

\* Several evaluations of each kind have completed.
WitnessC5 ==
    /\ Visits("score_groundedness") >= 3
    /\ Visits("check_precision") >= 2

\* C6: only score_groundedness changes groundedness_loop_count, only
\* check_precision changes precision_loop_count, and each evaluator leaves
\* the other evaluator's counter and score alone.
FrameC6 ==
    [][ /\ pc # "score_groundedness" =>
              state'.groundedness_loop_count = state.groundedness_loop_count
        /\ pc # "check_precision" =>
              state'.precision_loop_count = state.precision_loop_count
        /\ pc = "score_groundedness" =>
              state'.precision_score = state.precision_score
        /\ pc = "check_precision" =>
              state'.groundedness_score = state.groundedness_score ]_vars

\* Every node has run with both counters and both scores already set.
WitnessC6 ==
    /\ pc = "END"
    /\ \A n \in Nodes : Visits(n) >= 1
    /\ state.precision_score > 0
    /\ state.groundedness_score > 0

\* C7: when every groundedness score of a run is below the threshold,
\* check_precision is never visited, and the run ends after exactly
\* loop_max_iter + 1 visits of score_groundedness and loop_max_iter visits
\* of refine_response, through max_iterations_reached, with the fallback
\* message as response and groundedness_loop_count = loop_max_iter + 1.
GroundednessExhaustionC7 ==
    AllBelow(gpass) =>
        /\ pc # "check_precision"
        /\ Visits("check_precision") = 0
        /\ pc = "END" =>
              /\ Visits("score_groundedness") = state.loop_max_iter + 1
              /\ Visits("refine_response") = state.loop_max_iter
              /\ trace[Len(trace)] = "max_iterations_reached"
              /\ via = "score_groundedness"
              /\ state.response = fallback_message
              /\ state.groundedness_loop_count = state.loop_max_iter + 1

\* The default ceiling 3: four evaluations, all below the threshold.
WitnessC7 ==
    /\ pc = "END"
    /\ AllBelow(gpass)
    /\ state.loop_max_iter = 3
    /\ Visits("score_groundedness") = 4

\* C8: when every groundedness score meets its threshold and every precision
\* score is below its threshold, the run ends after exactly max_loops + 1
\* visits of check_precision and max_loops visits of refine_query, through
\* max_iterations_reached, with precision_loop_count = max_loops + 1 and the
\* fallback message as response.
PrecisionExhaustionC8 ==
    (pc = "END" /\ AllMet(gpass) /\ AllBelow(ppass)) =>
        /\ Visits("check_precision") = max_loops + 1
        /\ Visits("refine_query") = max_loops
        /\ Visits("refine_response") = 0
        /\ trace[Len(trace)] = "max_iterations_reached"
        /\ via = "check_precision"
        /\ state.precision_loop_count = max_loops + 1
        /\ state.response = fallback_message

\* The default ceiling 3: four precision checks, all below the threshold.
WitnessC8 ==
    /\ pc = "END"
    /\ AllMet(gpass)
    /\ AllBelow(ppass)
    /\ max_loops = 3
    /\ Visits("check_precision") = 4

\* C9: when the first groundedness score and the first precision score both
\* meet their thresholds, the run is expand_query, retrieve_context,
\* generate_response, score_groundedness, check_precision, END, each once,
\* and both counters are 1.
HappyPathC9 ==
    (Len(gpass) >= 1 /\ gpass[1] /\ Len(ppass) >= 1 /\ ppass[1]) =>
        /\ pc = "END"
        /\ trace = <<"expand_query", "retrieve_context", "generate_response",
                     "score_groundedness", "check_precision">>
        /\ state.groundedness_loop_count = 1
        /\ state.precision_loop_count = 1

\* The happy path with both scores exactly at the threshold.
WitnessC9 ==
    /\ pc = "END"
    /\ gpass = <<TRUE>>
    /\ ppass = <<TRUE>>
    /\ state.groundedness_score = groundedness_threshold
    /\ state.precision_score = precision_threshold

\* C10: max_iterations_reached replaces the response by the fallback
\* message whatever it was, changes no other field and is followed only by
\* END; a finished run that passed through it has the fallback message as
\* its response.
MaxIterationsC10 ==
    /\ [][ pc = "max_iterations_reached" =>
              /\ state'.response = fallback_message
              /\ \A f \in DOMAIN state \ {"response"} : state'[f] = state[f]
              /\ DOMAIN state' = DOMAIN state
              /\ pc' = "END" ]_vars
    /\ [](pc = "END" /\ Visits("max_iterations_reached") >= 1 =>
              state.response = fallback_message)

\* Sent there by the precision router, with a generated response to replace
\* (WitnessC7 is a run sent there by the groundedness router).
WitnessC10 ==
    /\ pc = "END"
    /\ via = "check_precision"
    /\ Visits("generate_response") >= 2
    /\ state.response = fallback_message
    /\ fallback_message # DefaultFallback

\* C12: once retrieve_context has run, state.context has at most k = 3
\* entries and is exactly what the similarity oracle returned last, entry by
\* entry and in the oracle's order; nothing of an earlier pass remains.
ContextReplacementC12 ==
    Visits("retrieve_context") >= 1 =>
        /\ Len(state.context) <= RetrieverK
        /\ Len(state.context) = Len(oracle.search_docs)
        /\ \A i \in 1..Len(state.context) :
              /\ state.context[i].content = oracle.search_docs[i].page_content
              /\ state.context[i].metadata = oracle.search_docs[i].metadata

\* A later retrieval pass that returned a single document.
WitnessC12 ==
    /\ Visits("retrieve_context") >= 2
    /\ pc = "generate_response"
    /\ Len(state.context) = 1
    /\ state.context[1].content = "d1"

\* C13: refine_response changes only feedback, refine_query changes only
\* query_feedback; response, expanded_query and every other field keep
\* their values.
FeedbackFrameC13 ==
    /\ [][ pc = "refine_response" /\ pc' # "ERROR" =>
              /\ DOMAIN state' = DOMAIN state
              /\ \A f \in DOMAIN state \ {"feedback"} : state'[f] = state[f] ]_vars
    /\ [][ pc = "refine_query" /\ pc' # "ERROR" =>
              /\ DOMAIN state' = DOMAIN state
              /\ \A f \in DOMAIN state \ {"query_feedback"} : state'[f] = state[f] ]_vars

\* Both feedback fields were written, response and expanded query are there.
WitnessC13 ==
    /\ Visits("refine_response") >= 1
    /\ Visits("refine_query") >= 1
    /\ state.feedback # <<>>
    /\ state.query_feedback # <<>>
    /\ state.response # ""
    /\ state.expanded_query # ""

\* C14: when the text an evaluator's oracle returns is not a number the run
\* ends in an error: the scores and the loop counters keep their values, no
\* default score is stored, no node is recorded, and nothing runs after the
\* error.
ParseFailureC14 ==
    /\ [][ oracle'.score_calls # oracle.score_calls /\ ~IsNumeral(oracle'.score_text) =>
              /\ pc' = "ERROR"
              /\ state' = state
              /\ trace' = trace ]_vars
    /\ [][ pc # "ERROR" ]_vars

\* The precision evaluator's oracle returned a text that is no number, after
\* earlier evaluations of both kinds.
WitnessC14 ==
    /\ pc = "ERROR"
    /\ ~IsNumeral(oracle.score_text)
    /\ Len(ppass) >= 1
    /\ Count(gpass, TRUE) = Len(ppass) + 1
    /\ oracle.score_calls = Len(gpass) + Len(ppass) + 1
    /\ state.precision_score > 0

\* C15: after every evaluation both scores lie in 0..10 (0..100 in tenths);
\* a numeral outside that range is never stored.
ScoreRangeC15 ==
    /\ state.precision_score >= 0
    /\ state.precision_score <= 100
    /\ state.groundedness_score >= 0
    /\ state.groundedness_score <= 100

\* C17, as stated: score_groundedness runs at most loop_max_iter + 1 times
\* and check_precision at most max_loops + 1 times.
EvaluatorBudgetStatedC17 ==
    /\ Visits("score_groundedness") <= state.loop_max_iter + 1
    /\ Visits("check_precision") <= max_loops + 1

\* C17, amended: check_precision runs at most max_loops + 1 times;
\* score_groundedness scores below the threshold at most loop_max_iter + 1
\* times and runs at most loop_max_iter + max_loops + 1 times in all.
EvaluatorBudgetC17 ==
    /\ Visits("check_precision") <= max_loops + 1
    /\ Count(gpass, FALSE) <= state.loop_max_iter + 1
    /\ Visits("score_groundedness") <= state.loop_max_iter + max_loops + 1

\* Both budgets used up in one run.
WitnessC17 ==
    /\ pc = "END"
    /\ state.loop_max_iter >= 1
    /\ max_loops >= 1
    /\ Visits("check_precision") = max_loops + 1
    /\ Visits("score_groundedness") = state.loop_max_iter + max_loops + 1

\* C18, as stated: with max_loops equal to loop_max_iter = m a run visits at
\* most 2 * (m + 2) nodes.
NodeVisitsStatedC18 ==
    max_loops = state.loop_max_iter => Len(trace) <= 2 * (state.loop_max_iter + 2)

\* C18, amended: a run visits at most 3 * loop_max_iter + 6 * max_loops + 6
\* nodes (9 * m + 6 when both ceilings are m), whatever the scores.
NodeVisitsC18 ==
    Len(trace) <= 3 * state.loop_max_iter + 6 * max_loops + 6

\* A finished run of exactly that length, both ceilings equal.
WitnessC18 ==
    /\ pc = "END"
    /\ max_loops = state.loop_max_iter
    /\ state.loop_max_iter >= 1
    /\ Len(trace) = 9 * state.loop_max_iter + 6

\* C19: the groundedness router's ceiling is state.loop_max_iter and the
\* precision router's ceiling is the handler's max_loops; the precision
\* decision is the same for every other loop_max_iter, and the groundedness
\* decision is the one the law gives whatever max_loops is.
TwoCeilingsC19 ==
    /\ via = "PrecisionHandler" =>
          /\ (pc = "max_iterations_reached") =
                (state.precision_score < precision_threshold
                    /\ state.precision_loop_count > max_loops)
          /\ \A m \in 0..(MaxIter + MaxLoops + 1) :
                PrecisionHandler([state EXCEPT !.loop_max_iter = m],
                                 precision_threshold, max_loops) = pc
    /\ via = "GroundednessNextStep" =>
          (pc = "max_iterations_reached") =
                (state.groundedness_score < groundedness_threshold
                    /\ state.groundedness_loop_count > state.loop_max_iter)

\* Decisions on which the two ceilings disagree: a precision count over
\* loop_max_iter that is refined again, or a groundedness count over
\* max_loops that is refined again.
WitnessC19 ==
    \/ /\ via = "PrecisionHandler"
       /\ pc = "refine_query"
       /\ state.precision_loop_count > state.loop_max_iter
    \/ /\ via = "GroundednessNextStep"
       /\ pc = "refine_response"
       /\ state.groundedness_loop_count > max_loops

\* C20: no step of a run changes state.query or state.loop_max_iter, so both
\* keep the values the run was started with.
ImmutableFieldsC20 ==
    [][ /\ state'.query = state.query
        /\ state'.loop_max_iter = state.loop_max_iter ]_vars

\* A finished run that expanded the query twice and generated responses.
WitnessC20 ==
    /\ pc = "END"
    /\ Visits("expand_query") >= 2
    /\ Visits("generate_response") >= 3
    /\ state.query \in Queries
    /\ state.expanded_query # state.query

\* C11: the graph runs, and the bot is called, only for a query that the
\* content-safety filter has classified and that was accepted; a processed
\* query whose filter answer is a rejection ends its turn with the rejection
\* message and without any Session State, on the console and on the web UI.
SafetyGateC11 ==
    /\ (pc \in Nodes \/ front.at \in {"bot", "tool"}) =>
          front.classified /\ Accepted(front.verdict)
    /\ (front.at = "input" /\ front.query # "" /\ ~Accepted(GuardFilter(front.guard))) =>
          /\ front.runs = 0
          /\ front.shown = [kind |-> "rejection", text |-> RejectionMessage]

\* C16: a failed oracle call ends the node without completing it; after the
\* error nothing of the graph runs, the run is not started again, and the
\* invoker shows its error message, not a response of the run.
OracleFailureC16 ==
    /\ [][ oracle'.failed /\ ~oracle.failed =>
              /\ pc' = "ERROR"
              /\ state' = state
              /\ trace' = trace ]_vars
    /\ [][ pc = "ERROR" =>
              /\ pc' = "idle"
              /\ state' = state
              /\ trace' = trace
              /\ front'.runs = front.runs
              /\ front'.at = "input"
              /\ front'.shown = [kind |-> "error", text |-> ConsoleErrorMessage] ]_vars

\* A run failed in an evaluator's oracle call after a response had been
\* generated, and the console is back at its prompt with the error message.
WitnessC16 ==
    /\ pc = "idle"
    /\ oracle.failed
    /\ front.at = "input"
    /\ front.shown.kind = "error"
    /\ state.response \in Responses
    /\ Visits("generate_response") >= 2

\* C24: a run that is at END without having passed through
\* max_iterations_reached has both scores at or above their thresholds, and
\* check_precision is only ever entered with the latest groundedness score
\* at or above the groundedness threshold.
QualityAtExitC24 ==
    /\ (pc = "END" /\ Visits("max_iterations_reached") = 0) =>
          /\ state.groundedness_score >= groundedness_threshold
          /\ state.precision_score >= precision_threshold
    /\ pc = "check_precision" =>
          state.groundedness_score >= groundedness_threshold

\* A run that ended without the fallback after both loops had refined.
WitnessC24 ==
    /\ pc = "END"
    /\ Visits("max_iterations_reached") = 0
    /\ Visits("refine_response") >= 1
    /\ Visits("refine_query") >= 1
    /\ state.precision_loop_count = max_loops + 1

\* C26: groundedness_loop_count never decreases, the re-entry through
\* refine_query included; over a whole run refine_response is visited at
\* most loop_max_iter times and refine_query at most max_loops times.
GroundednessBudgetPerRunC26 ==
    /\ [][ state'.groundedness_loop_count >= state.groundedness_loop_count ]_vars
    /\ [](Visits("refine_response") <= state.loop_max_iter)
    /\ [](Visits("refine_query") <= max_loops)

\* The outer budget used up and the inner one drawn on in two outer
\* iterations: the passing evaluation between them counted too, so one
\* refinement fewer than loop_max_iter was left.
WitnessC26 ==
    /\ state.loop_max_iter >= 3
    /\ max_loops >= 1
    /\ pc = "max_iterations_reached"
    /\ via = "score_groundedness"
    /\ Visits("refine_response") = state.loop_max_iter - 1
    /\ Visits("refine_query") = max_loops
    /\ \E i \in 1..Len(trace) : \E j \in 1..Len(trace) : \E k \in 1..Len(trace) :
          /\ i < j
          /\ j < k
          /\ trace[i] = "refine_response"
          /\ trace[j] = "refine_query"
          /\ trace[k] = "refine_response"

\* C27: precision_loop_count is at most max_loops + 1 and
\* groundedness_loop_count at most loop_max_iter + max_loops + 1 in every
\* reachable state.
CounterBoundsC27 ==
    /\ state.precision_loop_count <= max_loops + 1
    /\ state.groundedness_loop_count <= state.loop_max_iter + max_loops + 1

\* Both counters at their bounds, with the ceilings the program is built with.
WitnessC27 ==
    /\ state.loop_max_iter = LoopMaxIter
    /\ max_loops = DefaultMaxLoops
    /\ state.precision_loop_count = max_loops + 1
    /\ state.groundedness_loop_count = state.loop_max_iter + max_loops + 1

\* C28: groundedness_loop_count is never below precision_loop_count, and
\* check_precision is entered straight from a score_groundedness pass that
\* met the threshold and scored the response of the latest
\* generate_response.
PrecisionAfterGroundednessC28 ==
    /\ state.groundedness_loop_count >= state.precision_loop_count
    /\ pc = "check_precision" =>
          /\ Len(trace) >= 2
          /\ trace[Len(trace)] = "score_groundedness"
          /\ trace[Len(trace) - 1] = "generate_response"
          /\ gpass # <<>>
          /\ gpass[Len(gpass)]
          /\ Count(gpass, TRUE) = Len(ppass) + 1

\* A later precision check is about to run, after failed groundedness
\* passes.
WitnessC28 ==
    /\ pc = "check_precision"
    /\ Len(ppass) >= 1
    /\ Count(gpass, FALSE) >= 1
    /\ state.groundedness_loop_count > state.precision_loop_count + 1

\* C23: evaluating a router changes no field of the Session State and no
\* field of a router object (thresholds, max_loops), and a router evaluated
\* again on the state it left returns the label it returned before.
RoutersPureC23 ==
    /\ [][ /\ state' = state
           /\ groundedness_threshold' = groundedness_threshold
           /\ precision_threshold' = precision_threshold
           /\ max_loops' = max_loops ]_vars
    /\ [](\A i \in 1..Len(trace) : trace[i] = trace[1])

\* A router evaluated twice at the edge of its ceiling, where one more count
\* would change the label.
WitnessC23 ==
    /\ Len(trace) = RouterCalls
    /\ \/ /\ via = "PrecisionHandler"
          /\ pc = "refine_query"
          /\ state.precision_loop_count = max_loops
       \/ /\ via = "GroundednessNextStep"
          /\ pc = "refine_response"
          /\ state.groundedness_loop_count = state.loop_max_iter

\* C25: whenever a router decides, the score it reads was computed in the
\* same pass, on the response of the latest generate_response; a run at END
\* by the precision router's pass has both scores computed on its final
\* response.
FreshScoresC25 ==
    /\ [][ (pc = "score_groundedness" /\ pc' \in Nodes) =>
              /\ oracle'.groundedness_on = Visits("generate_response")
              /\ oracle'.score_calls = oracle.score_calls + 1
              /\ state'.groundedness_score = ParseFloat(oracle'.score_text) ]_vars
    /\ [][ (pc = "check_precision" /\ pc' \in Nodes \cup {"END"}) =>
              /\ oracle'.precision_on = Visits("generate_response")
              /\ oracle'.score_calls = oracle.score_calls + 1
              /\ state'.precision_score = ParseFloat(oracle'.score_text) ]_vars
    /\ []((pc = "END" /\ Visits("max_iterations_reached") = 0) =>
              /\ oracle.groundedness_on = Visits("generate_response")
              /\ oracle.precision_on = Visits("generate_response")
              /\ oracle.generated = state.response)

\* A run that ended by a pass in a later outer iteration: the precision
\* score of the earlier iteration was below the threshold and was replaced.
WitnessC25 ==
    /\ pc = "END"
    /\ Visits("max_iterations_reached") = 0
    /\ Visits("refine_query") >= 1
    /\ Visits("generate_response") >= 3
    /\ oracle.precision_on = Visits("generate_response")
    /\ Len(ppass) >= 2
    /\ ~ppass[1]

QueryFeedbackValues == {<<>>, <<"Previous Expanded Query: ", "e1", "\nSuggestions: ", "other">>}

FeedbackHandOverC30 ==
    /\ [](oracle.generate_calls = 1 => oracle.generate_in.feedback = <<>>)
    /\ [][ (pc = "refine_response" /\ pc' = "generate_response") =>
              /\ state.response = oracle.generated
              /\ \E s \in Suggestions :
                    state'.feedback =
                        <<"Previous Response: ", oracle.generated, "\nSuggestions: ", s>> ]_vars
    /\ [][ (pc = "generate_response" /\ pc' = "score_groundedness") =>
              oracle'.generate_in.feedback = state.feedback ]_vars
    /\ []((pc = "score_groundedness"
              /\ Len(trace) >= 2
              /\ trace[Len(trace) - 1] = "refine_response") =>
              \E s \in Suggestions :
                  oracle.generate_in.feedback =
                      <<"Previous Response: ", state.feedback[2], "\nSuggestions: ", s>>)

\* A second refinement replaced the feedback of the first, written for a
\* different response, and the generator was handed the new one.
WitnessC30 ==
    /\ pc = "score_groundedness"
    /\ Visits("refine_response") >= 2
    /\ Len(trace) >= 2
    /\ trace[Len(trace) - 1] = "refine_response"
    /\ oracle.generate_in.feedback = state.feedback
    /\ state.feedback[2] = "r2"
    /\ \E i \in 1..Len(gpass) : ~gpass[i]

\* C21: every run of the workflow starts from a newly built Session State,
\* with both counters 0, both feedback fields, the context and the response
\* empty, however the run before it ended; during a run the counters count
\* the evaluations of that run only.
NoRetentionC21 ==
    /\ [][ (pc = "idle" /\ pc' = "expand_query") =>
              /\ state'.query \in Queries
              /\ state' = [state' EXCEPT
                              !.expanded_query = "",
                              !.context = <<>>,
                              !.response = "",
                              !.precision_score = 0,
                              !.groundedness_score = 0,
                              !.groundedness_loop_count = 0,
                              !.precision_loop_count = 0,
                              !.feedback = <<>>,
                              !.query_feedback = <<>>,
                              !.groundedness_check = FALSE,
                              !.loop_max_iter = LoopMaxIter] ]_vars
    /\ [](pc \in Nodes =>
              /\ state.groundedness_loop_count = Visits("score_groundedness")
              /\ state.precision_loop_count = Visits("check_precision")
              /\ (Visits("refine_response") = 0 => state.feedback = <<>>)
              /\ (Visits("refine_query") = 0 => state.query_feedback = <<>>))

\* A run under way after an earlier run that ended in an error; the runs
\* after a pass and after the fallback are WitnessPassC21 and WitnessMaxC21.
WitnessC21 ==
    /\ pc = "score_groundedness"
    /\ front.turns >= 1
    /\ front.last_run = "error"
    /\ state.groundedness_loop_count = 0

WitnessPassC21 ==
    /\ pc = "score_groundedness"
    /\ front.turns >= 1
    /\ front.last_run = "pass"

WitnessMaxC21 ==
    /\ pc = "score_groundedness"
    /\ front.turns >= 1
    /\ front.last_run = "max"

\* C22: when two sessions run through the graph with their node executions
\* interleaved in any order, each session's node sequence, counters, scores
\* and response (the whole of its Session State, at every point of the run
\* and at its end) are what the same run gives alone with the same oracle
\* answers; a step of one session leaves the other session's state as it
\* was, and no step writes to the shared component objects.
SessionIsolationC22 ==
    /\ [](\A i \in Sessions :
            sessions[i].pc # "idle" =>
                LET alone == Alone(i)
                IN  /\ sessions[i].pc = alone.pc
                    /\ sessions[i].trace = alone.trace
                    /\ sessions[i].state = alone.state)
    /\ [][\E i \in Sessions : sessions'[Other(i)] = sessions[Other(i)]]_vars
    /\ [][UNCHANGED Config]_vars

\* Both sessions ran to the end while the other was running, one to an
\* accepted response and one to the fallback.
WitnessC22 ==
    /\ \A i \in Sessions : sessions[i].pc = "END" /\ sessions[i].overlapped
    /\ sessions[1].state.response = "r1"
    /\ sessions[2].state.response = fallback_message
    /\ sessions[1].state.groundedness_loop_count # sessions[2].state.groundedness_loop_count
    /\ sessions[2].state.precision_loop_count > 1

\* C31: once refine_response has set state.feedback no node empties it: only
\* refine_response writes the field, so from the first refine_response to
\* the end of the graph's nodes it is not empty, and every later
\* generate_response is handed the feedback as it stands, also the first
\* one after refine_query -> expand_query -> retrieve_context, whose
\* feedback was written for a response of an earlier iteration.
FeedbackNeverClearedC31 ==
    /\ [][ (pc \in Nodes /\ pc # "refine_response") =>
              state'.feedback = state.feedback ]_vars
    /\ []((pc \in Nodes /\ Visits("refine_response") >= 1) => state.feedback # <<>>)
    /\ [][ (pc = "generate_response" /\ pc' = "score_groundedness"
               /\ Visits("refine_response") >= 1) =>
              /\ oracle'.generate_in.feedback = state.feedback
              /\ oracle'.generate_in.feedback # <<>>
              /\ state'.feedback = state.feedback ]_vars
    /\ []((pc = "score_groundedness"
              /\ Len(trace) >= 2
              /\ trace[Len(trace) - 1] = "retrieve_context"
              /\ Visits("refine_response") >= 1) =>
              /\ Visits("refine_query") >= 1
              /\ \E r \in Responses, s \in Suggestions :
                    oracle.generate_in.feedback =
                        <<"Previous Response: ", r, "\nSuggestions: ", s>>)

\* The first generation after a re-entry through refine_query, over a
\* context retrieved anew, was handed the feedback written for the response
\* "r2" of the iteration before, and generated another response.
WitnessC31 ==
    /\ pc = "score_groundedness"
    /\ Len(trace) >= 2
    /\ trace[Len(trace) - 1] = "retrieve_context"
    /\ Visits("refine_response") >= 1
    /\ Visits("refine_query") >= 1
    /\ oracle.generate_in.feedback # <<>>
    /\ oracle.generate_in.feedback[2] = "r2"
    /\ state.response = "r1"
    /\ Len(state.context) = 3

InputsExistC33 ==
    /\ [](pc \in Nodes => Reads(pc) \subseteq DOMAIN state)
    /\ [](pc \in {"retrieve_context", "refine_query"} =>
              /\ Visits("expand_query") >= 1
              /\ state.expanded_query \in Expansions
              /\ state.expanded_query = oracle.expanded)
    /\ [](pc = "generate_response" =>
              /\ Visits("retrieve_context") >= 1
              /\ state.context = ContextOf(oracle.search_docs))
    /\ [](pc \in {"score_groundedness", "check_precision", "refine_response"} =>
              /\ Visits("generate_response") >= 1
              /\ state.response \in Responses
              /\ state.response = oracle.generated)
    /\ [][ (pc = "score_groundedness" /\ pc' \in Nodes) =>
              /\ state'.groundedness_score = GroundednessParseScore(oracle'.score_text).value
              /\ pc' = GroundednessPathMap(GroundednessNextStep(state', groundedness_threshold)) ]_vars
    /\ [][ (pc = "check_precision" /\ pc' \in Nodes \cup {"END"}) =>
              /\ state'.precision_score = ParseScore(oracle'.score_text).value
              /\ pc' = PrecisionPathMap(PrecisionHandler(state', precision_threshold, max_loops)) ]_vars

\* The precision evaluator is about to run in the second outer iteration,
\* on a response generated after a refinement over a context retrieved for
\* that iteration's expansion.
WitnessC33 ==
    /\ pc = "check_precision"
    /\ Visits("refine_query") = 1
    /\ Visits("refine_response") >= 1
    /\ Visits("expand_query") = 2
    /\ Visits("retrieve_context") = 2
    /\ state.expanded_query = "e2"
    /\ state.response = "r2"
    /\ Len(state.context) = 1
    /\ state.groundedness_score >= groundedness_threshold

\* C34: in the console loop a query that is not "exit" is handed to the bot
\* exactly when the filter's completion, stripped and with its newlines
\* turned into spaces, is "safe", "unsafe S6" or "unsafe S7"; with any other
\* verdict, and when the filter call failed, the turn ends with the
\* rejection message and the bot is not invoked; and an "exit" in any
\* letter case ends the loop with the goodbye, the filter and the bot not
\* called.
GuardVerdictC34 ==
    /\ [][ (front.path = "console" /\ front.at = "input" /\ front' # front) =>
              /\ front'.input \in UserInputs
              /\ pc' = "idle"
              /\ IF front'.input \in {"exit", "Exit", "EXIT"}
                 THEN front' = [front EXCEPT
                                   !.input = front'.input,
                                   !.at = "stopped",
                                   !.shown = [kind |-> "goodbye", text |-> ConsoleGoodbye]]
                 ELSE /\ front'.classified
                      /\ front'.query = front'.input
                      /\ front'.runs = 0
                      /\ IF /\ front'.guard # <<>>
                            /\ Normalize(front'.guard) \in
                                   { <<"safe">>, <<"unsafe", " ", "S6">>, <<"unsafe", " ", "S7">> }
                         THEN /\ front'.at = "bot"
                              /\ front'.shown.kind = "none"
                              /\ front'.turns = front.turns
                         ELSE /\ front'.at = "input"
                              /\ front'.shown = [kind |-> "rejection", text |-> RejectionMessage]
                              /\ front'.turns = front.turns + 1 ]_vars
    /\ []((front.path = "console"
              /\ (front.at \in {"bot", "tool", "store"} \/ pc \in Nodes \cup {"END", "ERROR"}
                      \/ front.runs > 0)) =>
              /\ front.guard # <<>>
              /\ Normalize(front.guard) \in
                     { <<"safe">>, <<"unsafe", " ", "S6">>, <<"unsafe", " ", "S7">> })

\* After a turn whose query was accepted and answered by a run of the graph,
\* the filter failed on the next query and the turn ended with the rejection.
WitnessC34 ==
    /\ front.path = "console"
    /\ front.at = "input"
    /\ front.turns = 2
    /\ front.last_run = "pass"
    /\ front.input = "q1"
    /\ front.guard = <<>>
    /\ front.runs = 0
    /\ front.shown = [kind |-> "rejection", text |-> RejectionMessage]

\* C35: for each customer query the long-term memory is searched once,
\* before the agent is invoked (before it calls the tool or answers); the
\* interaction is handed to the memory at most once, only after the agent
\* returned its output, as the query with that output, and exactly once when
\* the turn ends with a response; when the search, the tool or the agent
\* failed, and when the filter rejected the query, nothing is recorded.
MemoryOrderC35 ==
    /\ [](front.searches <= 1 /\ front.records <= 1)
    /\ []((front.at \in {"tool", "store"} \/ pc \in Nodes \cup {"END", "ERROR"}
              \/ front.runs > 0 \/ front.answered) =>
              front.searches = 1)
    /\ [][ front'.searches > front.searches =>
              /\ front.at = "bot"
              /\ front.runs = 0
              /\ ~front.answered
              /\ front.records = 0 ]_vars
    /\ [][ front'.records > front.records =>
              /\ front.at = "store"
              /\ front.answered
              /\ front.searches = 1
              /\ pc = "idle"
              /\ front'.recorded = [message |-> front.query, response |-> front.answer] ]_vars
    /\ [](front.records = 1 =>
              /\ front.answered
              /\ front.recorded = [message |-> front.query, response |-> front.answer])
    /\ []((front.at = "input" /\ front.shown.kind = "response") =>
              /\ front.records = 1
              /\ front.recorded = [message |-> front.query, response |-> front.shown.text])
    /\ []((front.at = "input" /\ front.shown.kind = "rejection") =>
              front.searches = 0 /\ front.records = 0)
    /\ []((front.at = "input" /\ front.shown.kind = "error" /\ ~front.answered) =>
              front.records = 0)
    /\ [](front.records = 0 => front.recorded = NoInteraction)

\* The second query of a session was answered with the fallback of a run
\* that hit a ceiling, and the query with that answer was recorded once.
WitnessC35 ==
    /\ front.path = "console"
    /\ front.at = "input"
    /\ front.turns = 2
    /\ front.runs = 1
    /\ front.last_run = "max"
    /\ front.searches = 1
    /\ front.records = 1
    /\ front.shown = [kind |-> "response", text |-> fallback_message]
    /\ front.recorded = [message |-> "q1", response |-> fallback_message]

====
